---- MODULE Spec2Model ----
(***************************************************************************)
(* Job orchestration core of the animation server: the Redis job store     *)
(* (src/src/redis_client.py), the JSON file mirror and the pipeline        *)
(* (src/src/helper_service.py), the SQLite cache index                     *)
(* (src/src/database.py) and the HTTP handlers (src/src/routes.py).        *)
(*                                                                         *)
(* Scheduling: the route handlers are "async def" functions that call the  *)
(* blocking pipeline without awaiting, so one handler runs at a time on    *)
(* the event loop; render_animation is a synchronous background task and   *)
(* runs in a worker thread, concurrently with the handlers and with other  *)
(* renders.  Steps are taken at the blocking calls (collaborator calls and *)
(* the render subprocess).                                                 *)
(***************************************************************************)
EXTENDS Integers, Sequences, FiniteSets, TLC

VARIABLES
    redis,      \* job:{job_id} keys of the Job Store: job_id -> record
    jobs_list,  \* the sorted set jobs:list, highest score first
    redis_up,   \* the Redis connection can be (re)established
    disk,       \* JOBS_DIR/{job_id}.json mirror: job_id -> record
    db,         \* animations table: (level,subject_id,chapter_id,topic_id) -> row
    media,      \* files under MEDIA_ROOT: name, and whether the resolved path
                \* is inside MEDIA_ROOT (a symlink may lead out of it)
    h,          \* the request handler running on the event loop
    tasks,      \* render_animation background tasks, queued or running
    next_id,    \* next fresh job id (uuid4)
    retries,    \* number of accepted retries so far
    event,      \* the last HTTP response or finished render
    hist,       \* per job: the course of its most recent pipeline run
                \* (lost: a save_job of the run returned False), and
                \* creation: how create_animation_job ended for it
    client      \* RedisClient on its own: the job:{id} keys, the scores of
                \* jobs:list and the clock

vars == <<redis, jobs_list, redis_up, disk, db, media, h, tasks, next_id,
          retries, event, hist, client>>

(***************************************************************************)
(* Bounds and inputs                                                       *)
(***************************************************************************)
MaxJobs == 2
MaxRetries == 1
MaxKeys == 3
MaxTime == 3

RENDER_TIMEOUT == 600

None == <<>>

JobIds == 1..MaxJobs

\* job ids and timestamp_numeric values handed to RedisClient directly
ClientIds == 1..MaxKeys

Timestamps ==
    [t : {"missing", "null", "text", "nan"}, v : {0}]
    \cup [t : {"num", "numstr"}, v : 1..MaxTime]

\* AnimationRequest bodies the clients send (src/src/schemas.py).  Both
\* topics sanitize to class names that differ in case only.
Requests ==
    { [level |-> 8, subject_id |-> 3, chapter_id |-> 12, topic_id |-> 101,
       topic |-> <<"a", " ", "b">>, subject |-> <<"s">>, chapter |-> <<"c">>],
      [level |-> 9, subject_id |-> 3, chapter_id |-> 12, topic_id |-> 101,
       topic |-> <<"a", "b">>, subject |-> <<"s">>, chapter |-> <<"c">>] }

TupleOf(r) == <<r.level, r.subject_id, r.chapter_id, r.topic_id>>

Opt(s) == IF s = {} THEN None ELSE CHOOSE x \in s : TRUE

(***************************************************************************)
(* src/src/utilities.py                                                    *)
(***************************************************************************)
IsAlpha(c) == c \in {"a", "b", "A", "B"}
IsDigit(c) == c \in {"1"}
IsSpace(c) == c = " "

Upper(c) == CASE c = "a" -> "A" [] c = "b" -> "B" [] OTHER -> c

Lower(c) ==
    CASE c = "A" -> "a" [] c = "B" -> "b"
      [] c = "Scene" -> "scene" [] c = "Anim" -> "anim"
      [] c = "Animation" -> "animation" [] OTHER -> c

LowerSeq(s) == [i \in DOMAIN s |-> Lower(s[i])]

\* str.capitalize(): first character upper-cased, the rest lower-cased
Capitalize(w) == [i \in DOMAIN w |-> IF i = 1 THEN Upper(w[i]) ELSE Lower(w[i])]

\* ''.join(c if c.isalnum() or c.isspace() else ' ' for c in topic).split()
RECURSIVE SplitWords(_, _, _)
SplitWords(s, cur, acc) ==
    IF s = <<>> THEN (IF cur = <<>> THEN acc ELSE Append(acc, cur))
    ELSE IF IsAlpha(Head(s)) \/ IsDigit(Head(s))
         THEN SplitWords(Tail(s), Append(cur, Head(s)), acc)
         ELSE SplitWords(Tail(s), <<>>,
                         IF cur = <<>> THEN acc ELSE Append(acc, cur))

RECURSIVE JoinCapitalized(_)
JoinCapitalized(ws) ==
    IF ws = <<>> THEN <<>>
    ELSE Capitalize(Head(ws)) \o JoinCapitalized(Tail(ws))

sanitize_class_name(topic) ==
    LET class_name == JoinCapitalized(SplitWords(topic, <<>>, <<>>))
    IN  (IF class_name = <<>> THEN <<"Animation">>
         ELSE IF IsDigit(class_name[1]) THEN <<"Anim">> \o class_name
         ELSE class_name) \o <<"Scene">>

VideoName(class_name) == class_name \o <<".mp4">>

(***************************************************************************)
(* src/src/redis_client.py                                                 *)
(***************************************************************************)
\* setex job:{job_id}; unchanged and False when the connection is down
save_job(store, up, job_id, job_data) ==
    IF up THEN (job_id :> job_data) @@ store ELSE store

\* jobs:list without one member
Without(list, job_id) == SelectSeq(list, LAMBDA x : x # job_id)

\* zadd jobs:list with a score just taken from time.time(): the highest
zadd_job(list, up, job_id) ==
    IF up THEN <<job_id>> \o Without(list, job_id) ELSE list

\* zadd jobs:list with the timestamp_numeric the record still carries from
\* an earlier step; newer are the members scored since it was taken
zadd_job_at(list, up, job_id, newer) ==
    LET rest == Without(list, job_id)
        n == Len(SelectSeq(rest, LAMBDA x : x \in newer))
    IN  IF up
        THEN SubSeq(rest, 1, n) \o <<job_id>> \o SubSeq(rest, n + 1, Len(rest))
        ELSE list

\* zrevrange jobs:list 0 -1, then get_job on each id: ids without a readable
\* record are skipped
get_all_jobs(list, store, up) ==
    IF up THEN SelectSeq(list, LAMBDA x : x \in DOMAIN store) ELSE <<>>

\* the record as a set of at most one element (Optional[dict])
get_job(store, up, job_id) ==
    IF up /\ job_id \in DOMAIN store THEN {store[job_id]} ELSE {}

\* RedisClient_save_job that starts jobs:list afresh when it has to repair
\* the timestamp
RedisClient_save_job_reindexing(c, job_id, job_data) ==
    LET ts == job_data.timestamp_numeric
        repaired == ts.t \in {"missing", "null", "text"}
        coerced == IF repaired THEN [t |-> "num", v |-> c.now]
                   ELSE IF ts.t = "numstr" THEN [t |-> "num", v |-> ts.v]
                   ELSE ts
        stored == [job_data EXCEPT !.timestamp_numeric = coerced]
    IN  [c EXCEPT !.keys = (job_id :> stored) @@ @,
                  !.zset = IF coerced.t = "nan" THEN @
                           ELSE IF repaired THEN (job_id :> coerced.v)
                           ELSE (job_id :> coerced.v) @@ @,
                  !.ok = coerced.t # "nan"]

\* RedisClient_save_job that scores the id at the time of the call
RedisClient_save_job_scored_now(c, job_id, job_data) ==
    LET ts == job_data.timestamp_numeric
        coerced == IF ts.t \in {"missing", "null", "text"}
                   THEN [t |-> "num", v |-> c.now]
                   ELSE IF ts.t = "numstr" THEN [t |-> "num", v |-> ts.v]
                   ELSE ts
        stored == [job_data EXCEPT !.timestamp_numeric = coerced]
    IN  [c EXCEPT !.keys = (job_id :> stored) @@ @,
                  !.zset = IF coerced.t = "nan" THEN @
                           ELSE (job_id :> c.now) @@ @,
                  !.ok = coerced.t # "nan"]

\* save_job in full.  timestamp_numeric is absent or None: time.time();
\* float() of it raises: time.time(); a number or a numeric string: its
\* value.  setex stores the record; zadd scores the id, unless the score is
\* NaN, which Redis refuses: the record is stored, the index is as it was
\* and save_job returns False.
RedisClient_save_job(c, job_id, job_data) ==
    LET ts == job_data.timestamp_numeric
        coerced == IF ts.t \in {"missing", "null", "text"}
                   THEN [t |-> "num", v |-> c.now]
                   ELSE IF ts.t = "numstr" THEN [t |-> "num", v |-> ts.v]
                   ELSE ts
        stored == [job_data EXCEPT !.timestamp_numeric = coerced]
    IN  [c EXCEPT !.keys = (job_id :> stored) @@ @,
                  !.zset = IF coerced.t = "nan" THEN @
                           ELSE (job_id :> coerced.v) @@ @,
                  !.ok = coerced.t # "nan"]

\* zrevrange jobs:list 0 -1: by score, highest first; equal scores by
\* member, highest first
ZRevRange(zset) ==
    LET Above(a, b) == \/ zset[a] > zset[b]
                       \/ zset[a] = zset[b] /\ a > b
        Rank(a) == Cardinality({b \in DOMAIN zset : Above(b, a)}) + 1
    IN  [i \in 1..Cardinality(DOMAIN zset) |->
            CHOOSE a \in DOMAIN zset : Rank(a) = i]

\* get_job in full: the record under job:{job_id} as json.loads gives it
\* back, None when the key is absent
RedisClient_get_job(c, job_id) ==
    IF job_id \in DOMAIN c.keys THEN {c.keys[job_id]} ELSE {}

\* get_all_jobs that appends an entry for every listed id
RedisClient_get_all_jobs_unfiltered(c) == ZRevRange(c.zset)

\* get_all_jobs in full: the records of the listed ids that still have one
RedisClient_get_all_jobs(c) ==
    SelectSeq(ZRevRange(c.zset), LAMBDA a : a \in DOMAIN c.keys)

\* delete_job
RedisClient_delete_job(c, job_id) ==
    [c EXCEPT !.keys = [a \in DOMAIN @ \ {job_id} |-> @[a]],
              !.zset = [a \in DOMAIN @ \ {job_id} |-> @[a]],
              !.ok = TRUE]

\* cleanup_expired_jobs
RedisClient_cleanup_expired_jobs(c) ==
    [c EXCEPT !.zset = [a \in DOMAIN @ \cap DOMAIN c.keys |-> @[a]],
              !.ok = TRUE]

(***************************************************************************)
(* src/src/helper_service.py: helpers                                      *)
(***************************************************************************)
\* the files rglob can come upon first (the directory order is the
\* system's): those whose name matches, case-insensitively
find_video_file(files, filename) ==
    {p \in files : LowerSeq(p.name) = LowerSeq(filename)}

save_job_to_disk(mirror, job_id, job_data) == (job_id :> job_data) @@ mirror

(***************************************************************************)
(* src/src/database.py                                                     *)
(***************************************************************************)
\* save_animation as INSERT OR REPLACE: the row of the tuple is made anew
save_animation_replacing(table, key, topic_name, job_id, status, narration_text, audio_filename, now) ==
    IF \E k \in DOMAIN table : k # key /\ table[k].job_id = job_id
    THEN table
    ELSE (key :> [job_id |-> job_id, topic_name |-> topic_name,
                  video_name |-> None, status |-> status,
                  narration_text |-> narration_text,
                  audio_filename |-> audio_filename,
                  created_at |-> now]) @@ table

\* INSERT ... ON CONFLICT(level, subject_id, chapter_id, topic_id) DO UPDATE
\* SET job_id, video_name, status, narration_text, audio_filename (and
\* updated_at): topic_name and created_at stay those of the insertion.
\* job_id is UNIQUE: a job_id held by another row aborts the statement.
\* now is datetime.now().isoformat() at the call.
save_animation(table, key, topic_name, job_id, status, narration_text, audio_filename, now) ==
    IF \E k \in DOMAIN table : k # key /\ table[k].job_id = job_id
    THEN table
    ELSE IF key \in DOMAIN table
    THEN [table EXCEPT ![key] = [@ EXCEPT !.job_id = job_id,
                                          !.video_name = None,
                                          !.status = status,
                                          !.narration_text = narration_text,
                                          !.audio_filename = audio_filename]]
    ELSE (key :> [job_id |-> job_id, topic_name |-> topic_name,
                  video_name |-> None, status |-> status,
                  narration_text |-> narration_text,
                  audio_filename |-> audio_filename,
                  created_at |-> now]) @@ table

\* UPDATE animations SET status = ? [, video_name = ? [, audio_filename = ?]]
\* WHERE job_id = ?
update_animation_status(table, job_id, status, video_name, audio_filename) ==
    [k \in DOMAIN table |->
        IF table[k].job_id # job_id THEN table[k]
        ELSE IF video_name # None /\ audio_filename # None
             THEN [table[k] EXCEPT !.status = status,
                                   !.video_name = video_name,
                                   !.audio_filename = audio_filename]
        ELSE IF video_name # None
             THEN [table[k] EXCEPT !.status = status,
                                   !.video_name = video_name]
        ELSE [table[k] EXCEPT !.status = status]]

\* check_existing_animation without the status condition
check_existing_animation_any_status(table, key) ==
    IF key \in DOMAIN table THEN {table[key]} ELSE {}

\* SELECT * ... WHERE <tuple> AND status = 'completed'
check_existing_animation(table, key) ==
    IF key \in DOMAIN table /\ table[key].status = "completed"
    THEN {table[key]} ELSE {}

get_animation_by_job_id(table, job_id) ==
    {table[k] : k \in {x \in DOMAIN table : table[x].job_id = job_id}}

(***************************************************************************)
(* src/src/helper_service.py: create_animation_job                         *)
(***************************************************************************)
\* the job_data literal; created_at is now.isoformat(), the time of the
\* call, which no other job shares
initial_job(job_id, req) ==
    [job_id |-> job_id, status |-> "generating_narration",
     message |-> "Generating educational narration...",
     topic |-> req.topic, topic_id |-> req.topic_id,
     subject |-> req.subject, subject_id |-> req.subject_id,
     chapter |-> req.chapter, chapter_id |-> req.chapter_id,
     level |-> req.level, script |-> None, video_name |-> None,
     narration_text |-> None, audio_filename |-> None, error |-> None,
     class_name |-> None, created_at |-> <<job_id>>]

\* Step 1 succeeded
narration_done(job_data, narration_text) ==
    [job_data EXCEPT !.narration_text = narration_text,
                     !.status = "generating_audio",
                     !.message = "Converting narration to speech..."]

\* Step 2 succeeded
audio_done(job_data, audio_filename) ==
    [job_data EXCEPT !.audio_filename = audio_filename,
                     !.status = "generating_script",
                     !.message = "Generating educational animation script..."]

\* script_done that leaves the status at generating_script
script_done_unmarked(job_data, script, class_name) ==
    [job_data EXCEPT !.script = script, !.class_name = class_name,
                     !.message = "Ready for rendering"]

\* Step 3 succeeded
script_done(job_data, script, class_name) ==
    [job_data EXCEPT !.script = script, !.class_name = class_name,
                     !.status = "pending", !.message = "Ready for rendering"]

\* create_failed that records the error and leaves the status as it was
create_failed_status_kept(job_data, e) ==
    [job_data EXCEPT !.message = "Failed to create animation", !.error = e]

\* the except block of create_animation_job
create_failed(job_data, e) ==
    [job_data EXCEPT !.status = "failed",
                     !.message = "Failed to create animation",
                     !.error = e]

(***************************************************************************)
(* src/src/helper_service.py: retry_job                                    *)
(***************************************************************************)
\* retry_check with "completed" let through as well
retry_check_completed(job) ==
    IF job = {} THEN "Job not found"
    ELSE IF Opt(job).status \notin {"failed", "completed"}
         THEN "Cannot retry job"
    ELSE "ok"

\* retry_check that lets a job through while it renders
retry_check_rendering(job) ==
    IF job = {} THEN "Job not found"
    ELSE IF Opt(job).status \notin {"failed", "rendering"}
         THEN "Cannot retry job"
    ELSE "ok"

\* retry_check without the status guard
retry_check_unguarded(job) ==
    IF job = {} THEN "Job not found" ELSE "ok"

\* the two guards: "ok", or the ValueError raised
retry_check(job) ==
    IF job = {} THEN "Job not found"
    ELSE IF Opt(job).status \notin {"failed"} THEN "Cannot retry job"
    ELSE "ok"

\* retry_reset that leaves the error of the failed run in place
retry_reset_error_kept(job) ==
    [job EXCEPT !.status = "generating_narration",
                !.message = "Regenerating animation with context-aware narration..."]

\* the reset retry_job saves before it runs the stages again
retry_reset(job) ==
    [job EXCEPT !.status = "generating_narration",
                !.message = "Regenerating animation with context-aware narration...",
                !.error = None]

\* retry_ready that keeps the narration and audio of the failed run
retry_ready_stale(job, narration_text, audio_filename, script, class_name) ==
    [job EXCEPT !.script = script, !.class_name = class_name,
                !.status = "pending"]

retry_ready(job, narration_text, audio_filename, script, class_name) ==
    [job EXCEPT !.script = script, !.class_name = class_name,
                !.narration_text = narration_text,
                !.audio_filename = audio_filename,
                !.status = "pending"]

(***************************************************************************)
(* src/src/helper_service.py: render_animation                             *)
(***************************************************************************)
render_started(job) ==
    [job EXCEPT !.status = "rendering",
                !.message = "Rendering animation with audio..."]

\* render_error_msg that prefers stdout
render_error_msg_stdout_first(o) ==
    IF o.stdout # "" THEN <<o.stdout>>
    ELSE IF o.stderr # "" THEN <<o.stderr>>
    ELSE <<"Unknown rendering error">>

\* result.stderr or result.stdout or "Unknown rendering error"
render_error_msg(o) ==
    IF o.stderr # "" THEN <<o.stderr>>
    ELSE IF o.stdout # "" THEN <<o.stdout>>
    ELSE <<"Unknown rendering error">>

\* render_returned without the "if not video_path" branch
render_returned_unchecked_artifact(job, o, files, class_name) ==
    IF o.returncode # 0
    THEN [job EXCEPT !.status = "failed", !.message = "Rendering failed",
                     !.error = render_error_msg(o)]
    ELSE [job EXCEPT !.status = "completed",
                     !.message = "Animation completed successfully with audio",
                     !.video_name = VideoName(class_name)]

\* render_returned without the returncode branch
render_returned_unchecked_exit(job, o, files, class_name) ==
    IF {p \in files : LowerSeq(p.name) = LowerSeq(VideoName(class_name))} = {}
    THEN [job EXCEPT !.status = "failed",
                     !.message = "Video file not found after rendering",
                     !.error = <<"Expected: ", VideoName(class_name)>>]
    ELSE [job EXCEPT !.status = "completed",
                     !.message = "Animation completed successfully with audio",
                     !.video_name = VideoName(class_name)]

\* the record written after subprocess.run returned: non-zero exit, exit 0
\* without the video file, exit 0 with it
render_returned(job, o, files, class_name) ==
    IF o.returncode # 0
    THEN [job EXCEPT !.status = "failed", !.message = "Rendering failed",
                     !.error = render_error_msg(o)]
    ELSE IF find_video_file(files, VideoName(class_name)) = {}
    THEN [job EXCEPT !.status = "failed",
                     !.message = "Video file not found after rendering",
                     !.error = <<"Expected: ", VideoName(class_name)>>]
    ELSE [job EXCEPT !.status = "completed",
                     !.message = "Animation completed successfully with audio",
                     !.video_name = VideoName(class_name)]

\* render_raised whose timeout handler records nothing
render_raised_timeout_ignored(job, o) ==
    IF o.kind = "timeout" THEN job
    ELSE [job EXCEPT !.status = "failed", !.message = "Rendering failed",
                     !.error = <<"subprocess error">>]

\* the record written by the two except blocks
render_raised(job, o) ==
    IF o.kind = "timeout"
    THEN [job EXCEPT !.status = "failed", !.message = "Rendering timeout",
                     !.error = <<"Exceeded ", RENDER_TIMEOUT, "s timeout">>]
    ELSE [job EXCEPT !.status = "failed", !.message = "Rendering failed",
                     !.error = <<"subprocess error">>]

\* what subprocess.run can do: return with an exit code (the renderer, which
\* runs a generated script, may have left nothing, {class_name}.mp4, or a
\* link of that name that leads out of MEDIA_ROOT), time out, or raise
RenderOutcomes ==
    [kind : {"exit"}, returncode : {0}, writes : {"none", "file", "link"},
     stderr : {""}, stdout : {"out"}]
    \cup [kind : {"exit"}, returncode : {1}, writes : {"none"},
          stderr : {"", "Traceback"}, stdout : {"", "out"}]
    \cup [kind : {"timeout", "raise"}, returncode : {-1}, writes : {"none"},
          stderr : {""}, stdout : {""}]

(***************************************************************************)
(* State after start-up: empty stores, no request in progress              *)
(***************************************************************************)
Idle == [op |-> "idle"]

\* the job the running handler works on, if any
HandlerJob == IF h.op \in {"create", "retry"} THEN h.job_id ELSE 0

\* create_animation_job keeps its timestamp_numeric between its steps: note
\* that job_id was scored in jobs:list after it was taken
Rescored(handler, up, job_id) ==
    IF up /\ handler.op = "create"
    THEN [handler EXCEPT !.newer = @ \cup {job_id}]
    ELSE handler

Init ==
    /\ redis = <<>>
    /\ jobs_list = <<>>
    /\ redis_up = TRUE
    /\ disk = <<>>
    /\ db = <<>>
    /\ media = {}
    /\ h = Idle
    /\ tasks = {}
    /\ next_id = 1
    /\ retries = 0
    /\ event = [kind |-> "none"]
    /\ hist = <<>>
    /\ client = [keys |-> <<>>, zset |-> <<>>, now |-> 1, ok |-> TRUE]

\* jobs of the same tuple that have reached completed
CompletedFor(key) ==
    {j \in DOMAIN hist : hist[j].key = key /\ hist[j].completed}

\* the collaborators' outputs of the n-th pipeline run of a job
Output(job_id, n) == <<job_id, n>>

(***************************************************************************)
(* src/src/routes.py: generate_animation, cache hit                        *)
(***************************************************************************)
GenerateAnimationCached(req) ==
    /\ h = Idle
    /\ check_existing_animation(db, TupleOf(req)) # {}
    /\ LET existing == Opt(check_existing_animation(db, TupleOf(req)))
           stored == get_job(redis, redis_up, existing.job_id)
           job == IF stored # {} THEN Opt(stored)
                  ELSE [job_id |-> existing.job_id, status |-> existing.status,
                        video_name |-> existing.video_name]
       IN  event' = [kind |-> "generate", code |-> 200, cached |-> TRUE,
                     key |-> TupleOf(req), job_id |-> existing.job_id,
                     status |-> job.status, video_name |-> job.video_name]
    /\ UNCHANGED <<redis, jobs_list, redis_up, disk, db, media, h, tasks,
                   next_id, retries, hist>>
    /\ UNCHANGED client

(***************************************************************************)
(* generate_animation, cache miss: the route goes on to ping Redis         *)
(***************************************************************************)
GenerateAnimationMiss(req) ==
    /\ h = Idle
    /\ check_existing_animation(db, TupleOf(req)) = {}
    /\ h' = [op |-> "check", pc |-> 0, req |-> req,
             prior |-> CompletedFor(TupleOf(req))]
    /\ event' = [kind |-> "step"]
    /\ UNCHANGED <<redis, jobs_list, redis_up, disk, db, media, tasks, next_id,
                   retries, hist>>
    /\ UNCHANGED client

(***************************************************************************)
(* redis_client.ping() answered: create_animation_job up to the first      *)
(* collaborator call                                                       *)
(***************************************************************************)
CreateJob ==
    /\ h.op = "check"
    /\ redis_up
    /\ next_id <= MaxJobs
    /\ LET job_id == next_id
           job_data == initial_job(job_id, h.req)
       IN  /\ redis' = save_job(redis, redis_up, job_id, job_data)
           /\ jobs_list' = zadd_job(jobs_list, redis_up, job_id)
           /\ disk' = save_job_to_disk(disk, job_id, job_data)
           /\ h' = [op |-> "create", pc |-> 1, job_id |-> job_id,
                    job_data |-> job_data, run |-> 1, newer |-> {}]
           /\ hist' = (job_id :> [key |-> TupleOf(h.req), run |-> 1,
                                  stages |-> 0, threw |-> FALSE,
                                  render |-> "none", completed |-> FALSE,
                                  prior |-> h.prior, lost |-> ~redis_up,
                                  creation |-> "running"])
                      @@ hist
    /\ next_id' = next_id + 1
    /\ event' = [kind |-> "step"]
    /\ UNCHANGED <<redis_up, db, media, tasks, retries>>
    /\ UNCHANGED client

\* the except block: persist failed, re-raise; the route answers 500
CreateRaise(e) ==
    LET job_data == create_failed(h.job_data, e)
    IN  /\ redis' = save_job(redis, redis_up, h.job_id, job_data)
        /\ jobs_list' = zadd_job_at(jobs_list, redis_up, h.job_id, h.newer)
        /\ disk' = save_job_to_disk(disk, h.job_id, job_data)
        /\ h' = Idle
        /\ hist' = [hist EXCEPT ![h.job_id].threw = TRUE,
                                ![h.job_id].creation = "failed"]
        /\ event' = [kind |-> "generate", code |-> 500, cached |-> FALSE,
                     key |-> hist[h.job_id].key, job_id |-> h.job_id,
                     detail |-> e]
        /\ UNCHANGED <<redis_up, db, media, tasks, next_id, retries>>

\* Step 1: generate_narration_text returns or raises
CreateNarration(ok) ==
    /\ h.op = "create" /\ h.pc = 1
    /\ IF ok
       THEN LET job_data == narration_done(h.job_data, Output(h.job_id, h.run))
            IN  /\ redis' = save_job(redis, redis_up, h.job_id, job_data)
                /\ jobs_list' = zadd_job(jobs_list, redis_up, h.job_id)
                /\ h' = [h EXCEPT !.pc = 2, !.job_data = job_data,
                                  !.newer = {}]
                /\ hist' = [hist EXCEPT ![h.job_id].stages = 1,
                                        ![h.job_id].lost = @ \/ ~redis_up]
                /\ event' = [kind |-> "step"]
                /\ UNCHANGED <<redis_up, disk, db, media, tasks, next_id,
                               retries>>
       ELSE CreateRaise(<<"narration failed">>)
    /\ UNCHANGED client

\* Step 2: generate_narration_audio returns or raises
CreateAudio(ok) ==
    /\ h.op = "create" /\ h.pc = 2
    /\ IF ok
       THEN LET job_data == audio_done(h.job_data, Output(h.job_id, h.run))
            IN  /\ redis' = save_job(redis, redis_up, h.job_id, job_data)
                /\ jobs_list' = zadd_job(jobs_list, redis_up, h.job_id)
                /\ h' = [h EXCEPT !.pc = 3, !.job_data = job_data,
                                  !.newer = {}]
                /\ hist' = [hist EXCEPT ![h.job_id].stages = 2,
                                        ![h.job_id].lost = @ \/ ~redis_up]
                /\ event' = [kind |-> "step"]
                /\ UNCHANGED <<redis_up, disk, db, media, tasks, next_id,
                               retries>>
       ELSE CreateRaise(<<"audio failed">>)
    /\ UNCHANGED client

\* Step 3: generate_script_with_gemini returns or raises; on success the job
\* is persisted as pending, the cache row is upserted, the route queues the
\* render and answers
CreateScript(ok) ==
    /\ h.op = "create" /\ h.pc = 3
    /\ IF ok
       THEN LET class_name == sanitize_class_name(h.job_data.topic)
                job_data == script_done(h.job_data, Output(h.job_id, h.run),
                                        class_name)
            IN  /\ redis' = save_job(redis, redis_up, h.job_id, job_data)
                /\ jobs_list' = zadd_job(jobs_list, redis_up, h.job_id)
                /\ disk' = save_job_to_disk(disk, h.job_id, job_data)
                /\ db' = save_animation(db, hist[h.job_id].key, job_data.topic,
                                        h.job_id, "pending",
                                        job_data.narration_text,
                                        job_data.audio_filename,
                                        <<h.job_id>>)
                /\ tasks' = tasks \cup {[job_id |-> h.job_id,
                                         class_name |-> class_name,
                                         pc |-> "queued", job |-> {}]}
                /\ h' = Idle
                /\ hist' = [hist EXCEPT ![h.job_id].stages = 3,
                                        ![h.job_id].lost = @ \/ ~redis_up,
                                        ![h.job_id].creation = "done"]
                /\ event' = [kind |-> "generate", code |-> 200,
                             cached |-> FALSE, key |-> hist[h.job_id].key,
                             job_id |-> h.job_id, status |-> "pending",
                             video_name |-> None]
                /\ UNCHANGED <<redis_up, media, next_id, retries>>
       ELSE CreateRaise(<<"script failed">>)
    /\ UNCHANGED client

(***************************************************************************)
(* src/src/routes.py: retry_job_endpoint, with retry_job                   *)
(***************************************************************************)
\* retry_job raises ValueError before touching anything: 400
RetryJobRejected(job_id) ==
    /\ h = Idle
    /\ retry_check(get_job(redis, redis_up, job_id)) # "ok"
    /\ event' = [kind |-> "retry", code |-> 400, job_id |-> job_id,
                 detail |-> retry_check(get_job(redis, redis_up, job_id))]
    /\ UNCHANGED <<redis, jobs_list, redis_up, disk, db, media, h, tasks,
                   next_id, retries, hist>>
    /\ UNCHANGED client

\* the job is failed: reset it and persist, up to the first collaborator call
RetryJobStart(job_id) ==
    /\ h = Idle
    /\ retries < MaxRetries
    /\ retry_check(get_job(redis, redis_up, job_id)) = "ok"
    /\ LET job == retry_reset(Opt(get_job(redis, redis_up, job_id)))
       IN  /\ redis' = save_job(redis, redis_up, job_id, job)
           /\ jobs_list' = zadd_job(jobs_list, redis_up, job_id)
           /\ h' = [op |-> "retry", pc |-> 1, job_id |-> job_id,
                    job_data |-> job, run |-> hist[job_id].run + 1]
    /\ hist' = [hist EXCEPT ![job_id].run = @ + 1, ![job_id].stages = 0,
                            ![job_id].threw = FALSE,
                            ![job_id].render = "none",
                            ![job_id].lost = ~redis_up]
    /\ retries' = retries + 1
    /\ event' = [kind |-> "step"]
    /\ UNCHANGED <<redis_up, disk, db, media, tasks, next_id>>
    /\ UNCHANGED client

\* nothing in retry_job catches: the exception reaches the route, 500
RetryRaise(e) ==
    /\ h' = Idle
    /\ hist' = [hist EXCEPT ![h.job_id].threw = TRUE]
    /\ event' = [kind |-> "retry", code |-> 500, job_id |-> h.job_id,
                 detail |-> e]
    /\ UNCHANGED <<redis, jobs_list, redis_up, disk, db, media, tasks,
                   next_id, retries>>

RetryNarration(ok) ==
    /\ h.op = "retry" /\ h.pc = 1
    /\ IF ok
       THEN /\ h' = [h EXCEPT !.pc = 2]
            /\ hist' = [hist EXCEPT ![h.job_id].stages = 1]
            /\ event' = [kind |-> "step"]
            /\ UNCHANGED <<redis, jobs_list, redis_up, disk, db, media, tasks,
                           next_id, retries>>
       ELSE RetryRaise(<<"narration failed">>)
    /\ UNCHANGED client

RetryAudio(ok) ==
    /\ h.op = "retry" /\ h.pc = 2
    /\ IF ok
       THEN /\ h' = [h EXCEPT !.pc = 3]
            /\ hist' = [hist EXCEPT ![h.job_id].stages = 2]
            /\ event' = [kind |-> "step"]
            /\ UNCHANGED <<redis, jobs_list, redis_up, disk, db, media, tasks,
                           next_id, retries>>
       ELSE RetryRaise(<<"audio failed">>)
    /\ UNCHANGED client

\* the script comes back: persist pending (Redis and mirror), the route
\* queues the render and answers
RetryScript(ok) ==
    /\ h.op = "retry" /\ h.pc = 3
    /\ IF ok
       THEN LET class_name == sanitize_class_name(h.job_data.topic)
                out == Output(h.job_id, h.run)
                job == retry_ready(h.job_data, out, out, out, class_name)
            IN  /\ redis' = save_job(redis, redis_up, h.job_id, job)
                /\ jobs_list' = zadd_job(jobs_list, redis_up, h.job_id)
                /\ disk' = save_job_to_disk(disk, h.job_id, job)
                /\ tasks' = tasks \cup {[job_id |-> h.job_id,
                                         class_name |-> class_name,
                                         pc |-> "queued", job |-> {}]}
                /\ h' = Idle
                /\ hist' = [hist EXCEPT ![h.job_id].stages = 3,
                                        ![h.job_id].lost = @ \/ ~redis_up]
                /\ event' = [kind |-> "retry", code |-> 200,
                             job_id |-> h.job_id, detail |-> None]
                /\ UNCHANGED <<redis_up, db, media, next_id, retries>>
       ELSE RetryRaise(<<"script failed">>)
    /\ UNCHANGED client

(***************************************************************************)
(* src/src/helper_service.py: render_animation (background task)           *)
(***************************************************************************)
\* up to subprocess.run: mark the job rendering in the three stores
RenderStart(t) ==
    /\ t \in tasks /\ t.pc = "queued"
    /\ LET stored == get_job(redis, redis_up, t.job_id)
           job == IF stored = {} THEN {} ELSE {render_started(Opt(stored))}
       IN  /\ tasks' = (tasks \ {t}) \cup {[t EXCEPT !.pc = "running",
                                                     !.job = job]}
           /\ IF job # {}
              THEN /\ redis' = save_job(redis, redis_up, t.job_id, Opt(job))
                   /\ jobs_list' = zadd_job(jobs_list, redis_up, t.job_id)
                   /\ disk' = save_job_to_disk(disk, t.job_id, Opt(job))
                   /\ db' = update_animation_status(db, t.job_id, "rendering",
                                                    None, None)
                   /\ h' = Rescored(h, redis_up, t.job_id)
              ELSE UNCHANGED <<redis, jobs_list, disk, db, h>>
    /\ hist' = [hist EXCEPT ![t.job_id].render = "running"]
    /\ event' = [kind |-> "step"]
    /\ UNCHANGED <<redis_up, media, next_id, retries>>
    /\ UNCHANGED client

\* whether a file named like {class_name}.mp4 exists under MEDIA_ROOT
ArtifactPresent(files, class_name) ==
    \E p \in files : LowerSeq(p.name) = LowerSeq(VideoName(class_name))

\* how the render went, for hist
RenderCourse(o, files, class_name) ==
    IF o.kind # "exit" THEN o.kind
    ELSE IF o.returncode # 0 THEN "nonzero"
    ELSE IF ArtifactPresent(files, class_name) THEN "exit0_found"
    ELSE "exit0_missing"

\* subprocess.run returns, times out or raises, and the task finalizes
RenderFinish(t, o) ==
    /\ t \in tasks /\ t.pc = "running"
    /\ media' = IF o.writes = "none" THEN media
                ELSE media \cup {[name |-> VideoName(t.class_name),
                                  inside |-> o.writes = "file"]}
    /\ LET job == IF o.kind = "exit" THEN t.job
                  ELSE get_job(redis, redis_up, t.job_id)
           final == IF o.kind = "exit"
                    THEN render_returned(Opt(job), o, media', t.class_name)
                    ELSE render_raised(Opt(job), o)
       IN  IF job # {}
           THEN /\ redis' = save_job(redis, redis_up, t.job_id, final)
                /\ jobs_list' = zadd_job(jobs_list, redis_up, t.job_id)
                /\ disk' = save_job_to_disk(disk, t.job_id, final)
                /\ db' = IF final.status = "completed"
                         THEN update_animation_status(db, t.job_id,
                                  "completed", final.video_name,
                                  final.audio_filename)
                         ELSE update_animation_status(db, t.job_id, "failed",
                                                      None, None)
                /\ h' = Rescored(h, redis_up, t.job_id)
           ELSE UNCHANGED <<redis, jobs_list, disk, db, h>>
    /\ tasks' = tasks \ {t}
    /\ hist' = [hist EXCEPT
                  ![t.job_id].render = RenderCourse(o, media', t.class_name),
                  ![t.job_id].completed =
                      @ \/ (/\ t.job_id \in DOMAIN redis'
                            /\ redis'[t.job_id].status = "completed")]
    /\ event' = [kind |-> "render", job_id |-> t.job_id, outcome |-> o,
                 class_name |-> t.class_name,
                 present |-> ArtifactPresent(media', t.class_name)]
    /\ UNCHANGED <<redis_up, next_id, retries>>
    /\ UNCHANGED client

(***************************************************************************)
(* src/src/routes.py: the query endpoints                                  *)
(***************************************************************************)
\* job_status_response that looks at the Job Store only
job_status_response_store_only(job, db_animation) ==
    IF job # {}
    THEN [code |-> 200, source |-> "store", status |-> Opt(job).status,
          message |-> <<Opt(job).message>>,
          video_name |-> Opt(job).video_name, error |-> Opt(job).error]
    ELSE [code |-> 404, source |-> "none", status |-> "",
          message |-> <<"Job not found">>, video_name |-> None,
          error |-> None]

\* the answer of get_job_status: the stored record, else the row of the
\* job in the animations table, else 404
job_status_response(job, db_animation) ==
    IF job # {}
    THEN [code |-> 200, source |-> "store", status |-> Opt(job).status,
          message |-> <<Opt(job).message>>,
          video_name |-> Opt(job).video_name, error |-> Opt(job).error]
    ELSE IF db_animation # {}
    THEN [code |-> 200, source |-> "db", status |-> Opt(db_animation).status,
          message |-> <<"Animation ", Opt(db_animation).status>>,
          video_name |-> Opt(db_animation).video_name, error |-> None]
    ELSE [code |-> 404, source |-> "none", status |-> "",
          message |-> <<"Job not found">>, video_name |-> None,
          error |-> None]

GetJobStatus(job_id) ==
    /\ h = Idle
    /\ LET r == job_status_response(get_job(redis, redis_up, job_id),
                                    get_animation_by_job_id(db, job_id))
       IN  event' = [kind |-> "job_status", job_id |-> job_id,
                     code |-> r.code, source |-> r.source,
                     status |-> r.status, message |-> r.message,
                     video_name |-> r.video_name, error |-> r.error]
    /\ UNCHANGED <<redis, jobs_list, redis_up, disk, db, media, h, tasks,
                   next_id, retries, hist>>
    /\ UNCHANGED client

\* the answer of check_animation_cache and of check_animation
cache_response(existing) ==
    IF existing # {}
    THEN [cached |-> TRUE, job_id |-> Opt(existing).job_id,
          status |-> Opt(existing).status,
          video_name |-> Opt(existing).video_name]
    ELSE [cached |-> FALSE, job_id |-> 0, status |-> "", video_name |-> None]

\* POST /check_cache
CheckAnimationCache(req) ==
    /\ h = Idle
    /\ LET r == cache_response(check_existing_animation(db, TupleOf(req)))
       IN  event' = [kind |-> "check_cache", key |-> TupleOf(req),
                     cached |-> r.cached, job_id |-> r.job_id,
                     status |-> r.status, video_name |-> r.video_name]
    /\ UNCHANGED <<redis, jobs_list, redis_up, disk, db, media, h, tasks,
                   next_id, retries, hist>>
    /\ UNCHANGED client

\* GET /check_animation
CheckAnimation(req) ==
    /\ h = Idle
    /\ LET r == cache_response(check_existing_animation(db, TupleOf(req)))
       IN  event' = [kind |-> "check_animation", key |-> TupleOf(req),
                     cached |-> r.cached, job_id |-> r.job_id,
                     status |-> r.status, video_name |-> r.video_name]
    /\ UNCHANGED <<redis, jobs_list, redis_up, disk, db, media, h, tasks,
                   next_id, retries, hist>>
    /\ UNCHANGED client

\* ListJobs that drops the ids without a record from jobs:list on its way
ListJobs_cleaning ==
    /\ h = Idle
    /\ event' = [kind |-> "list_jobs",
                 jobs |-> get_all_jobs(jobs_list, redis, redis_up)]
    /\ jobs_list' = get_all_jobs(jobs_list, redis, redis_up)
    /\ UNCHANGED <<redis, redis_up, disk, db, media, h, tasks,
                   next_id, retries, hist>>
    /\ UNCHANGED client

\* GET /list_jobs
ListJobs ==
    /\ h = Idle
    /\ event' = [kind |-> "list_jobs",
                 jobs |-> get_all_jobs(jobs_list, redis, redis_up)]
    /\ UNCHANGED <<redis, jobs_list, redis_up, disk, db, media, h, tasks,
                   next_id, retries, hist>>
    /\ UNCHANGED client

\* video_lookup that serves whatever find_video_file returned
video_lookup_unconfined(job, db_animation, files) ==
    IF job = {} /\ (db_animation = {} \/ Opt(db_animation).status # "completed")
    THEN {[code |-> 404, detail |-> "Job not found", served |-> {}]}
    ELSE IF job # {} /\ Opt(job).status # "completed"
    THEN {[code |-> 400, detail |-> "Video not ready", served |-> {}]}
    ELSE LET video_name == IF job = {} THEN Opt(db_animation).video_name
                           ELSE Opt(job).video_name
         IN  IF video_name = None
             THEN {[code |-> 404,
                    detail |-> "Video file not associated with this job",
                    served |-> {}]}
             ELSE IF find_video_file(files, video_name) = {}
             THEN {[code |-> 404, detail |-> "Video file not found",
                    served |-> {}]}
             ELSE {[code |-> 200, detail |-> "ok", served |-> {p}] :
                      p \in find_video_file(files, video_name)}

\* the body shared by get_video_by_job and download_video: the possible
\* answers (one per file find_video_file may return)
video_lookup(job, db_animation, files) ==
    IF job = {} /\ (db_animation = {} \/ Opt(db_animation).status # "completed")
    THEN {[code |-> 404, detail |-> "Job not found", served |-> {}]}
    ELSE IF job # {} /\ Opt(job).status # "completed"
    THEN {[code |-> 400, detail |-> "Video not ready", served |-> {}]}
    ELSE LET video_name == IF job = {} THEN Opt(db_animation).video_name
                           ELSE Opt(job).video_name
         IN  IF video_name = None
             THEN {[code |-> 404,
                    detail |-> "Video file not associated with this job",
                    served |-> {}]}
             ELSE IF find_video_file(files, video_name) = {}
             THEN {[code |-> 404, detail |-> "Video file not found",
                    served |-> {}]}
             ELSE {IF p.inside
                   THEN [code |-> 200, detail |-> "ok", served |-> {p}]
                   ELSE [code |-> 403, detail |-> "Access denied",
                         served |-> {}] :
                      p \in find_video_file(files, video_name)}

\* GET /get_video/{job_id}
GetVideoByJob(job_id) ==
    /\ h = Idle
    /\ \E r \in video_lookup(get_job(redis, redis_up, job_id),
                             get_animation_by_job_id(db, job_id), media) :
          event' = [kind |-> "get_video", job_id |-> job_id, code |-> r.code,
                    detail |-> r.detail, served |-> r.served]
    /\ UNCHANGED <<redis, jobs_list, redis_up, disk, db, media, h, tasks,
                   next_id, retries, hist>>
    /\ UNCHANGED client

\* GET /download_video/{job_id}
DownloadVideo(job_id) ==
    /\ h = Idle
    /\ \E r \in video_lookup(get_job(redis, redis_up, job_id),
                             get_animation_by_job_id(db, job_id), media) :
          event' = [kind |-> "download_video", job_id |-> job_id,
                    code |-> r.code, detail |-> r.detail,
                    served |-> r.served]
    /\ UNCHANGED <<redis, jobs_list, redis_up, disk, db, media, h, tasks,
                   next_id, retries, hist>>
    /\ UNCHANGED client

(***************************************************************************)
(* src/src/redis_client.py: the TTL set by setex lapses.  Every transition *)
(* re-arms it to JOB_EXPIRATION_SECONDS (7 days), far beyond the stages    *)
(* and RENDER_TIMEOUT, so only a job nothing is working on can expire.     *)
(***************************************************************************)
Expire(job_id) ==
    /\ job_id \in DOMAIN redis
    /\ HandlerJob # job_id
    /\ \A t \in tasks : t.job_id # job_id
    /\ redis' = [j \in DOMAIN redis \ {job_id} |-> redis[j]]
    /\ event' = [kind |-> "expire", job_id |-> job_id]
    /\ UNCHANGED <<jobs_list, redis_up, disk, db, media, h, tasks, next_id,
                   retries, hist>>
    /\ UNCHANGED client

(***************************************************************************)
(* The Redis server becomes unreachable, and reachable again: while it is  *)
(* unreachable _ensure_connection gives up after its 5 attempts, so that   *)
(* save_job returns False, get_job returns None and ping returns False.    *)
(* The stored keys survive the outage.                                     *)
(***************************************************************************)
RedisDown ==
    /\ redis_up
    /\ redis_up' = FALSE
    /\ event' = [kind |-> "redis_down"]
    /\ UNCHANGED <<redis, jobs_list, disk, db, media, h, tasks, next_id,
                   retries, hist>>
    /\ UNCHANGED client

RedisUp ==
    /\ ~redis_up
    /\ redis_up' = TRUE
    /\ event' = [kind |-> "redis_up"]
    /\ UNCHANGED <<redis, jobs_list, disk, db, media, h, tasks, next_id,
                   retries, hist>>
    /\ UNCHANGED client

\* generate_animation: redis_client.ping() is False, the route answers 503
GenerateAnimationUnavailable ==
    /\ h.op = "check"
    /\ ~redis_up
    /\ h' = Idle
    /\ event' = [kind |-> "generate", code |-> 503, cached |-> FALSE,
                 key |-> TupleOf(h.req), job_id |-> 0,
                 detail |-> <<"Redis connection unavailable">>]
    /\ UNCHANGED <<redis, jobs_list, redis_up, disk, db, media, tasks, next_id,
                   retries, hist>>
    /\ UNCHANGED client

(***************************************************************************)
(* Specification                                                           *)
(***************************************************************************)
Next ==
    \/ \E req \in Requests : GenerateAnimationCached(req)
    \/ \E req \in Requests : GenerateAnimationMiss(req)
    \/ CreateJob
    \/ \E ok \in BOOLEAN : CreateNarration(ok)
    \/ \E ok \in BOOLEAN : CreateAudio(ok)
    \/ \E ok \in BOOLEAN : CreateScript(ok)
    \/ \E job_id \in JobIds : RetryJobRejected(job_id)
    \/ \E job_id \in JobIds : RetryJobStart(job_id)
    \/ \E ok \in BOOLEAN : RetryNarration(ok)
    \/ \E ok \in BOOLEAN : RetryAudio(ok)
    \/ \E ok \in BOOLEAN : RetryScript(ok)
    \/ \E t \in tasks : RenderStart(t)
    \/ \E t \in tasks, o \in RenderOutcomes : RenderFinish(t, o)
    \/ \E job_id \in JobIds : Expire(job_id)
    \/ \E job_id \in JobIds : GetJobStatus(job_id)
    \/ \E req \in Requests : CheckAnimationCache(req)
    \/ \E req \in Requests : CheckAnimation(req)
    \/ ListJobs
    \/ \E job_id \in JobIds : GetVideoByJob(job_id)
    \/ \E job_id \in JobIds : DownloadVideo(job_id)

Spec == Init /\ [][Next]_vars

\* the same system with a Redis server that can become unreachable
NextOutage ==
    \/ \E req \in Requests : GenerateAnimationCached(req)
    \/ \E req \in Requests : GenerateAnimationMiss(req)
    \/ GenerateAnimationUnavailable
    \/ CreateJob
    \/ \E ok \in BOOLEAN : CreateNarration(ok)
    \/ \E ok \in BOOLEAN : CreateAudio(ok)
    \/ \E ok \in BOOLEAN : CreateScript(ok)
    \/ \E job_id \in JobIds : RetryJobRejected(job_id)
    \/ \E job_id \in JobIds : RetryJobStart(job_id)
    \/ \E ok \in BOOLEAN : RetryNarration(ok)
    \/ \E ok \in BOOLEAN : RetryAudio(ok)
    \/ \E ok \in BOOLEAN : RetryScript(ok)
    \/ \E t \in tasks : RenderStart(t)
    \/ \E t \in tasks, o \in RenderOutcomes : RenderFinish(t, o)
    \/ \E job_id \in JobIds : Expire(job_id)
    \/ \E job_id \in JobIds : GetJobStatus(job_id)
    \/ \E req \in Requests : CheckAnimationCache(req)
    \/ \E req \in Requests : CheckAnimation(req)
    \/ ListJobs
    \/ \E job_id \in JobIds : GetVideoByJob(job_id)
    \/ \E job_id \in JobIds : DownloadVideo(job_id)
    \/ RedisDown
    \/ RedisUp

\* the outage is followed on the last job the bounds allow
InitOutage ==
    /\ redis = <<>>
    /\ jobs_list = <<>>
    /\ redis_up = TRUE
    /\ disk = <<>>
    /\ db = <<>>
    /\ media = {}
    /\ h = Idle
    /\ tasks = {}
    /\ next_id = MaxJobs
    /\ retries = 0
    /\ event = [kind |-> "none"]
    /\ hist = <<>>
    /\ client = [keys |-> <<>>, zset |-> <<>>, now |-> 1, ok |-> TRUE]

SpecOutage == InitOutage /\ [][NextOutage]_vars

(***************************************************************************)
(* src/src/helper_service.py: load_jobs_from_disk, run when the server     *)
(* process starts.  A restart ends the request in progress and the render  *)
(* tasks of the process that stopped.                                      *)
(***************************************************************************)
\* load_jobs_from_disk that stamps the records it re-inserts as new
load_jobs_from_disk_restamping(store, list, up, mirror) ==
    LET missing == {j \in DOMAIN mirror : get_job(store, up, j) = {}}
        loaded == [j \in DOMAIN store \cup missing |->
                      IF j \in DOMAIN store THEN store[j]
                      ELSE [mirror[j] EXCEPT !.created_at = <<j, j>>]]
    IN  [store |-> IF up THEN loaded ELSE store,
         list |-> list,
         migrated |-> IF up THEN missing ELSE {}]

\* every mirror file whose job get_job does not return is handed to
\* save_job as it is (setex, and zadd at the timestamp_numeric of the file);
\* then cleanup_expired_jobs drops the listed ids that have no record.  The
\* place a re-inserted id takes among the ids of other jobs is not followed:
\* the specification below has one job.
load_jobs_from_disk(store, list, up, mirror) ==
    LET missing == {j \in DOMAIN mirror : get_job(store, up, j) = {}}
        loaded == [j \in DOMAIN store \cup missing |->
                      IF j \in DOMAIN store THEN store[j] ELSE mirror[j]]
        unlisted == {j \in missing : \A i \in DOMAIN list : list[i] # j}
        RECURSIVE Listed(_, _)
        Listed(l, ids) ==
            IF ids = {} THEN l
            ELSE LET j == CHOOSE x \in ids : TRUE
                 IN  Listed(Append(l, j), ids \ {j})
    IN  [store |-> IF up THEN loaded ELSE store,
         list |-> IF up
                  THEN SelectSeq(Listed(list, unlisted),
                                 LAMBDA x : x \in DOMAIN loaded)
                  ELSE list,
         migrated |-> IF up THEN missing ELSE {}]

Restart ==
    /\ LET loaded == load_jobs_from_disk(redis, jobs_list, redis_up, disk)
       IN  /\ redis' = loaded.store
           /\ jobs_list' = loaded.list
           /\ event' = [kind |-> "startup", migrated |-> loaded.migrated]
    /\ h' = Idle
    /\ tasks' = {}
    /\ UNCHANGED <<redis_up, disk, db, media, next_id, retries, hist>>
    /\ UNCHANGED client

NextRestart ==
    \/ \E req \in Requests : GenerateAnimationCached(req)
    \/ \E req \in Requests : GenerateAnimationMiss(req)
    \/ CreateJob
    \/ \E ok \in BOOLEAN : CreateNarration(ok)
    \/ \E ok \in BOOLEAN : CreateAudio(ok)
    \/ \E ok \in BOOLEAN : CreateScript(ok)
    \/ \E job_id \in JobIds : RetryJobRejected(job_id)
    \/ \E job_id \in JobIds : RetryJobStart(job_id)
    \/ \E ok \in BOOLEAN : RetryNarration(ok)
    \/ \E ok \in BOOLEAN : RetryAudio(ok)
    \/ \E ok \in BOOLEAN : RetryScript(ok)
    \/ \E t \in tasks : RenderStart(t)
    \/ \E t \in tasks, o \in RenderOutcomes : RenderFinish(t, o)
    \/ \E job_id \in JobIds : Expire(job_id)
    \/ \E job_id \in JobIds : GetJobStatus(job_id)
    \/ \E req \in Requests : CheckAnimationCache(req)
    \/ \E req \in Requests : CheckAnimation(req)
    \/ ListJobs
    \/ \E job_id \in JobIds : GetVideoByJob(job_id)
    \/ \E job_id \in JobIds : DownloadVideo(job_id)
    \/ Restart

\* restarts are followed on the last job the bounds allow
InitRestart ==
    /\ redis = <<>>
    /\ jobs_list = <<>>
    /\ redis_up = TRUE
    /\ disk = <<>>
    /\ db = <<>>
    /\ media = {}
    /\ h = Idle
    /\ tasks = {}
    /\ next_id = MaxJobs
    /\ retries = 0
    /\ event = [kind |-> "none"]
    /\ hist = <<>>
    /\ client = [keys |-> <<>>, zset |-> <<>>, now |-> 1, ok |-> TRUE]

SpecRestart == InitRestart /\ [][NextRestart]_vars

(***************************************************************************)
(* Fair scheduling: the handler on the event loop goes on (each collaborator*)
(* call returns or raises) and so does every render task (the subprocess   *)
(* returns, raises or hits RENDER_TIMEOUT).  Requests come as they please. *)
(***************************************************************************)
HandlerProgress ==
    \/ CreateJob
    \/ \E ok \in BOOLEAN : CreateNarration(ok)
    \/ \E ok \in BOOLEAN : CreateAudio(ok)
    \/ \E ok \in BOOLEAN : CreateScript(ok)
    \/ \E ok \in BOOLEAN : RetryNarration(ok)
    \/ \E ok \in BOOLEAN : RetryAudio(ok)
    \/ \E ok \in BOOLEAN : RetryScript(ok)

RenderProgress ==
    \/ \E t \in tasks : RenderStart(t)
    \/ \E t \in tasks, o \in RenderOutcomes : RenderFinish(t, o)

\* one job is followed to its end
SpecFair ==
    InitOutage /\ [][Next]_vars
    /\ WF_vars(HandlerProgress) /\ WF_vars(RenderProgress)

(***************************************************************************)
(* RedisClient on its own: callers that hand save_job any record           *)
(***************************************************************************)
pipeline == <<redis, jobs_list, redis_up, disk, db, media, h, tasks, next_id,
              retries, hist>>

\* save_job(job_id, job_data)
ClientSave(job_id, ts) ==
    /\ client' = RedisClient_save_job(client, job_id,
                      [job_id |-> job_id, timestamp_numeric |-> ts])
    /\ event' = [kind |-> "save", job_id |-> job_id, ts |-> ts,
                 now |-> client.now]
    /\ UNCHANGED pipeline

\* time.time() moves on
ClientTick ==
    /\ client.now < MaxTime
    /\ client' = [client EXCEPT !.now = @ + 1]
    /\ event' = [kind |-> "tick"]
    /\ UNCHANGED pipeline

\* the TTL of job:{job_id} lapses
ClientExpire(job_id) ==
    /\ job_id \in DOMAIN client.keys
    /\ client' = [client EXCEPT
                     !.keys = [a \in DOMAIN @ \ {job_id} |-> @[a]]]
    /\ event' = [kind |-> "expire", job_id |-> job_id]
    /\ UNCHANGED pipeline

\* delete_job(job_id)
ClientDelete(job_id) ==
    /\ client' = RedisClient_delete_job(client, job_id)
    /\ event' = [kind |-> "delete", job_id |-> job_id]
    /\ UNCHANGED pipeline

\* cleanup_expired_jobs()
ClientCleanup ==
    /\ client' = RedisClient_cleanup_expired_jobs(client)
    /\ event' = [kind |-> "cleanup"]
    /\ UNCHANGED pipeline

\* get_job(job_id)
ClientGet(job_id) ==
    /\ event' = [kind |-> "get", job_id |-> job_id,
                 job |-> RedisClient_get_job(client, job_id)]
    /\ client' = [client EXCEPT !.ok = TRUE]
    /\ UNCHANGED pipeline

\* get_all_jobs(): the returned records, each named by its job_id
ClientListAll ==
    /\ event' = [kind |-> "list", jobs |-> RedisClient_get_all_jobs(client)]
    /\ client' = [client EXCEPT !.ok = TRUE]
    /\ UNCHANGED pipeline

NextClient ==
    \/ \E job_id \in ClientIds, ts \in Timestamps : ClientSave(job_id, ts)
    \/ \E job_id \in ClientIds : ClientGet(job_id)
    \/ ClientListAll
    \/ ClientTick
    \/ \E job_id \in ClientIds : ClientExpire(job_id)
    \/ \E job_id \in ClientIds : ClientDelete(job_id)
    \/ ClientCleanup

SpecClient == Init /\ [][NextClient]_vars

(***************************************************************************)
(* load_jobs_from_disk on RedisClient in full: the mirror directory holds  *)
(* the files of any jobs, Redis the records and scores of any jobs         *)
(***************************************************************************)
\* the timestamp_numeric values found in mirror files
MirrorTimestamps ==
    {[t |-> "num", v |-> 1], [t |-> "missing", v |-> 0],
     [t |-> "nan", v |-> 0]}

\* load_jobs_from_disk that saves every mirror file, present in Redis or not
RedisClient_load_jobs_from_disk_overwriting(c, mirror) ==
    LET RECURSIVE Load(_, _)
        Load(cl, ids) ==
            IF ids = {} THEN cl
            ELSE LET j == CHOOSE x \in ids : TRUE
                 IN  Load(RedisClient_save_job(cl, j, mirror[j]), ids \ {j})
    IN  RedisClient_cleanup_expired_jobs(Load(c, DOMAIN mirror))

\* for each file of JOBS_DIR: save_job unless get_job returns a record;
\* then cleanup_expired_jobs
RedisClient_load_jobs_from_disk(c, mirror) ==
    LET RECURSIVE Load(_, _)
        Load(cl, ids) ==
            IF ids = {} THEN cl
            ELSE LET j == CHOOSE x \in ids : TRUE
                 IN  Load(IF RedisClient_get_job(cl, j) = {}
                          THEN RedisClient_save_job(cl, j, mirror[j])
                          ELSE cl,
                          ids \ {j})
    IN  RedisClient_cleanup_expired_jobs(Load(c, DOMAIN mirror))

\* the server starts
ClientStartup ==
    /\ client' = RedisClient_load_jobs_from_disk(client, disk)
    /\ event' = [kind |-> "startup",
                 migrated |-> DOMAIN disk \ DOMAIN client.keys,
                 cleaned |-> DOMAIN client.zset \ DOMAIN client'.zset]
    /\ UNCHANGED pipeline

NextReconcile ==
    \/ \E job_id \in ClientIds, ts \in MirrorTimestamps : ClientSave(job_id, ts)
    \/ ClientTick
    \/ \E job_id \in ClientIds : ClientExpire(job_id)
    \/ ClientStartup

\* JOBS_DIR as earlier processes left it
InitReconcile ==
    /\ redis = <<>>
    /\ jobs_list = <<>>
    /\ redis_up = TRUE
    /\ \E S \in SUBSET ClientIds :
          \E ts \in [S -> MirrorTimestamps] :
             disk = [j \in S |-> [job_id |-> j, timestamp_numeric |-> ts[j]]]
    /\ db = <<>>
    /\ media = {}
    /\ h = Idle
    /\ tasks = {}
    /\ next_id = 1
    /\ retries = 0
    /\ event = [kind |-> "none"]
    /\ hist = <<>>
    /\ client = [keys |-> <<>>, zset |-> <<>>, now |-> 1, ok |-> TRUE]

SpecReconcile == InitReconcile /\ [][NextReconcile]_vars

(***************************************************************************)
(* src/src/redis_client.py: _ensure_connection and _connect_with_retry     *)
(* under save_job and get_job, while the Redis server comes and goes.  The *)
(* client carries, besides keys, zset, now and ok: connected (_connected   *)
(* with a client object), op (the call in progress), pc (where it is) and  *)
(* attempt (of the for loop).                                              *)
(***************************************************************************)
\* _ensure_connection calls _connect_with_retry(max_retries=5, retry_delay=1)
MAX_RETRIES == 5

\* a caller enters save_job(1, job_data) or get_job(1)
ClientCall(op) ==
    /\ client.op = "idle"
    /\ client' = [client EXCEPT !.op = op, !.pc = "ensure", !.attempt = 0]
    /\ event' = [kind |-> "call", op |-> op]
    /\ UNCHANGED pipeline

\* _ensure_connection: without a connection go to _connect_with_retry; with
\* one, ping it, and go there as well when the ping raises
EnsureConnection ==
    /\ client.op # "idle" /\ client.pc = "ensure"
    /\ client' = IF client.connected /\ redis_up
                 THEN [client EXCEPT !.pc = "command"]
                 ELSE [client EXCEPT !.connected = FALSE, !.pc = "connect",
                                     !.attempt = 1]
    /\ event' = [kind |-> "step"]
    /\ UNCHANGED pipeline

\* ConnectAttempt whose loop has no last attempt
ConnectAttempt_unbounded ==
    /\ client.op # "idle" /\ client.pc = "connect"
    /\ IF redis_up
       THEN /\ client' = [client EXCEPT !.connected = TRUE,
                                        !.pc = "command"]
            /\ event' = [kind |-> "step"]
       ELSE /\ client' = [client EXCEPT
                             !.attempt = IF @ < MAX_RETRIES THEN @ + 1 ELSE @]
            /\ event' = [kind |-> "step"]
    /\ UNCHANGED pipeline

\* one turn of the for loop of _connect_with_retry: redis.Redis(...) and
\* ping(); on an exception sleep retry_delay and go round again, or, at the
\* last attempt, raise ConnectionError, which save_job turns into False and
\* get_job into None
ConnectAttempt ==
    /\ client.op # "idle" /\ client.pc = "connect"
    /\ IF redis_up
       THEN /\ client' = [client EXCEPT !.connected = TRUE,
                                        !.pc = "command"]
            /\ event' = [kind |-> "step"]
       ELSE IF client.attempt < MAX_RETRIES
       THEN /\ client' = [client EXCEPT !.attempt = @ + 1]
            /\ event' = [kind |-> "step"]
       ELSE /\ client' = [client EXCEPT !.op = "idle", !.pc = "none",
                                        !.ok = FALSE]
            /\ event' = [kind |-> client.op, returned |-> "failure",
                         job |-> {}, attempts |-> client.attempt]
    /\ UNCHANGED pipeline

\* the Redis commands of the call, on the connection _ensure_connection left:
\* setex and zadd, or get; a RedisError (the server went away meanwhile) is
\* caught and gives False or None
ClientCommand ==
    /\ client.op # "idle" /\ client.pc = "command"
    /\ LET done == IF client.op = "save_job"
                   THEN RedisClient_save_job(client, 1,
                            [job_id |-> 1,
                             timestamp_numeric |-> [t |-> "num",
                                                    v |-> client.now]])
                   ELSE [client EXCEPT !.ok = TRUE]
       IN  IF redis_up
           THEN /\ client' = [done EXCEPT !.op = "idle", !.pc = "none"]
                /\ event' = [kind |-> client.op, returned |-> "result",
                             job |-> IF client.op = "get_job"
                                     THEN RedisClient_get_job(client, 1)
                                     ELSE {},
                             attempts |-> client.attempt]
           ELSE /\ client' = [client EXCEPT !.op = "idle", !.pc = "none",
                                            !.ok = FALSE]
                /\ event' = [kind |-> client.op, returned |-> "failure",
                             job |-> {}, attempts |-> client.attempt]
    /\ UNCHANGED pipeline

\* the steps of the call in progress
ClientProgress == EnsureConnection \/ ConnectAttempt \/ ClientCommand

NextConnect ==
    \/ \E op \in {"save_job", "get_job"} : ClientCall(op)
    \/ EnsureConnection
    \/ ConnectAttempt
    \/ ClientCommand
    \/ ClientTick
    \/ ClientExpire(1)
    \/ RedisDown
    \/ RedisUp

InitConnect ==
    /\ redis = <<>>
    /\ jobs_list = <<>>
    /\ redis_up \in BOOLEAN
    /\ disk = <<>>
    /\ db = <<>>
    /\ media = {}
    /\ h = Idle
    /\ tasks = {}
    /\ next_id = 1
    /\ retries = 0
    /\ event = [kind |-> "none"]
    /\ hist = <<>>
    /\ client = [keys |-> <<>>, zset |-> <<>>, now |-> 1, ok |-> TRUE,
                 connected |-> FALSE, op |-> "idle", pc |-> "none",
                 attempt |-> 0]

\* the thread of the call keeps running: sleep returns, and connecting and
\* the commands end within socket_connect_timeout and socket_timeout
SpecConnect == InitConnect /\ [][NextConnect]_vars /\ WF_vars(ClientProgress)

(***************************************************************************)
(* save_job on records of any timestamp_numeric and any created_at         *)
(***************************************************************************)
\* created_at of a record: absent, a text datetime.fromisoformat rejects, or
\* an ISO text, v being the timestamp() of what it parses to
CreatedAts ==
    [t : {"missing", "text"}, v : {0}] \cup [t : {"iso"}, v : 1..MaxTime]

\* _get_timestamp: timestamp_numeric when it is a number or a string float()
\* takes; else created_at when fromisoformat parses it; else time.time()
RedisClient_get_timestamp(c, job_data) ==
    IF job_data.timestamp_numeric.t \in {"num", "numstr", "nan"}
    THEN job_data.timestamp_numeric
    ELSE IF job_data.created_at.t = "iso"
    THEN [t |-> "num", v |-> job_data.created_at.v]
    ELSE [t |-> "num", v |-> c.now]

\* save_job(job_id, job_data) on a record that carries created_at
ClientSaveDated(job_id, ts, created_at) ==
    /\ client' = RedisClient_save_job(client, job_id,
                      [job_id |-> job_id, timestamp_numeric |-> ts,
                       created_at |-> created_at])
    /\ event' = [kind |-> "save_dated", job_id |-> job_id, ts |-> ts,
                 created_at |-> created_at, now |-> client.now]
    /\ UNCHANGED pipeline

\* save_job looks at the record it is handed only: one job id is followed
NextTimestamp ==
    \/ \E ts \in Timestamps, created_at \in CreatedAts :
          ClientSaveDated(1, ts, created_at)
    \/ ClientTick

SpecTimestamp == Init /\ [][NextTimestamp]_vars

(***************************************************************************)
(* Properties                                                              *)
(***************************************************************************)
Stored(job_id) == job_id \in DOMAIN redis

RowsOf(job_id) == {k \in DOMAIN db : db[k].job_id = job_id}

HasTask(job_id) == \E t \in tasks : t.job_id = job_id

\* C1: once a job of a tuple has reached completed, every later
\* create-animation request for that tuple is answered from the cache with a
\* completed job's id: no such request gets past the cache check, no job is
\* created for it.
C1_CachedOnceCompleted ==
    /\ h.op = "check" => h.prior = {}
    /\ \A j \in DOMAIN hist : hist[j].prior = {}
    /\ (event.kind = "generate" /\ event.cached)
          => event.job_id \in CompletedFor(event.key)

HappyPath ==
    { <<"generating_narration", "generating_audio">>,
      <<"generating_audio", "generating_script">>,
      <<"generating_script", "pending">>,
      <<"pending", "rendering">>,
      <<"rendering", "completed">> }

\* the step is retry_job accepting job_id
RetryAccepts(job_id) == h = Idle /\ h'.op = "retry" /\ h'.job_id = job_id

\* the step is taken by retry_job working on job_id
RetryRuns(job_id) == h.op = "retry" /\ HandlerJob = job_id

C3_RetryOfNonFailedRejected ==
    [][\A j \in JobIds :
          (/\ Stored(j) /\ redis[j].status # "failed"
           /\ RetryJobRejected(j) \/ RetryJobStart(j))
          => /\ event'.kind = "retry" /\ event'.code = 400
             /\ h' = Idle
             /\ UNCHANGED <<redis, jobs_list, disk, db, tasks>>]_vars

\* a retry of a job that is not failed has just been rejected
C3_Witness ==
    /\ event.kind = "retry" /\ event.code = 400
    /\ Stored(event.job_id)
    /\ redis[event.job_id].status \in {"pending", "rendering", "completed"}

\* C4: when a stage of job creation raises, the request is answered with an
\* error, the stored job (Redis and mirror) is failed with the exception's
\* message as error, the handler is finished (no later stage runs: the
\* artifacts of the raising stage and of those after it stay null) and no
\* render is queued for the job; the job then stays failed, without a
\* render, until it is retried.
C4_CreationFailure ==
    /\ \A j \in DOMAIN hist :
          (hist[j].run = 1 /\ hist[j].threw) =>
             /\ ~HasTask(j)
             /\ Stored(j) => (redis[j].status = "failed" /\ redis[j].error # None)
    /\ (event.kind = "generate" /\ event.code = 500) =>
        LET j == event.job_id IN
        /\ Stored(j)
        /\ redis[j].status = "failed" /\ redis[j].error = event.detail
        /\ disk[j] = redis[j]
        /\ h = Idle
        /\ ~HasTask(j)
        /\ hist[j].stages < 3 /\ redis[j].script = None
        /\ hist[j].stages < 2 => redis[j].audio_filename = None
        /\ hist[j].stages < 1 => redis[j].narration_text = None

\* creation has just failed in its second stage
C4_Witness ==
    /\ event.kind = "generate" /\ event.code = 500
    /\ event.detail = <<"audio failed">>
    /\ redis[event.job_id].status = "failed"
    /\ redis[event.job_id].narration_text # None

\* C5: when a stage of a retry raises, the stored job becomes failed with
\* error set, so that it can be retried again.
C5_RetryFailureStored ==
    (event.kind = "retry" /\ event.code = 500) =>
        /\ Stored(event.job_id)
        /\ redis[event.job_id].status = "failed"
        /\ redis[event.job_id].error # None

\* C6: when the render times out, the stored job is failed with the timeout
\* as error (it is not left rendering) and the cache-index row of the job,
\* if it has one, is failed.
C6_RenderTimeout ==
    (event.kind = "render" /\ event.outcome.kind = "timeout") =>
        LET j == event.job_id IN
        /\ Stored(j)
        /\ redis[j].status = "failed"
        /\ redis[j].error = <<"Exceeded ", RENDER_TIMEOUT, "s timeout">>
        /\ disk[j].status = "failed"
        /\ \A k \in RowsOf(j) : db[k].status = "failed"

\* a render has just timed out on a job that has a cache-index row
C6_Witness ==
    /\ event.kind = "render" /\ event.outcome.kind = "timeout"
    /\ redis[event.job_id].status = "failed"
    /\ RowsOf(event.job_id) # {}

\* C7: when the renderer exits 0 and no file named {class_name}.mp4 exists
\* under the media root, the stored job is failed with a descriptive error
\* and video_name still null.
C7_MissingArtifact ==
    (/\ event.kind = "render" /\ event.outcome.kind = "exit"
     /\ event.outcome.returncode = 0 /\ ~event.present) =>
        LET j == event.job_id IN
        /\ Stored(j)
        /\ redis[j].status = "failed"
        /\ redis[j].error = <<"Expected: ", VideoName(event.class_name)>>
        /\ redis[j].video_name = None
        /\ \A k \in RowsOf(j) : db[k].status = "failed"

\* a render has just exited 0 without leaving its file
C7_Witness ==
    /\ event.kind = "render" /\ event.outcome.kind = "exit"
    /\ event.outcome.returncode = 0 /\ ~event.present
    /\ redis[event.job_id].status = "failed"

\* C8: when the renderer exits non-zero, the stored job is failed with error
\* the captured stderr, or stdout when stderr is empty, or the default text
\* when both are empty; this holds whether or not the video file exists (no
\* artifact search), and that render does not complete the job.
C8_NonZeroExit ==
    (/\ event.kind = "render" /\ event.outcome.kind = "exit"
     /\ event.outcome.returncode # 0) =>
        LET j == event.job_id
            o == event.outcome IN
        /\ Stored(j)
        /\ redis[j].status = "failed"
        /\ o.stderr # "" => redis[j].error = <<o.stderr>>
        /\ (o.stderr = "" /\ o.stdout # "") => redis[j].error = <<o.stdout>>
        /\ (o.stderr = "" /\ o.stdout = "")
              => redis[j].error = <<"Unknown rendering error">>
        /\ redis[j].video_name = None
        /\ ~hist[j].completed
        /\ \A k \in RowsOf(j) : db[k].status = "failed"

\* a render has just exited non-zero with both outputs captured while the
\* video file exists
C8_Witness ==
    /\ event.kind = "render" /\ event.outcome.kind = "exit"
    /\ event.outcome.returncode # 0 /\ event.present
    /\ event.outcome.stderr # "" /\ event.outcome.stdout # ""
    /\ redis[event.job_id].status = "failed"

\* C9: when the renderer exits 0 and {class_name}.mp4 is found, the stored
\* job is completed with that video_name, and a check of the cache for the
\* job's tuple returns a completed row with the job's id and that video_name.
C9_CompletedAndCached ==
    (/\ event.kind = "render" /\ event.outcome.kind = "exit"
     /\ event.outcome.returncode = 0 /\ event.present) =>
        LET j == event.job_id
            hit == check_existing_animation(db, hist[j].key) IN
        /\ Stored(j)
        /\ redis[j].status = "completed"
        /\ redis[j].video_name = VideoName(event.class_name)
        /\ hit # {}
        /\ Opt(hit).job_id = j
        /\ Opt(hit).video_name = VideoName(event.class_name)

\* C10: a stored job is completed only if, in its most recent pipeline run,
\* the three stages succeeded and the render exited 0 with the video file
\* present; the same holds for the mirror.
C10_CompletedMeansSuccess ==
    /\ \A j \in DOMAIN redis :
          redis[j].status = "completed" =>
             /\ hist[j].stages = 3 /\ ~hist[j].threw
             /\ hist[j].render = "exit0_found"
    /\ \A j \in DOMAIN disk :
          disk[j].status = "completed" =>
             /\ hist[j].stages = 3 /\ ~hist[j].threw
             /\ hist[j].render = "exit0_found"

\* a job completed in its second run, after a first run that failed
C10_Witness ==
    \E j \in DOMAIN redis :
        /\ redis[j].status = "completed"
        /\ hist[j].run = 2

\* the row of a tuple, when it is completed
CompletedRow(key) == key \in DOMAIN db /\ db[key].status = "completed"

\* the step handles a create-animation request for req up to its cache check
GenerateStep(req) ==
    /\ h = Idle
    /\ \/ event'.kind = "generate" /\ event'.key = TupleOf(req)
       \/ h' # Idle /\ h'.op = "check" /\ h'.req = req

\* C11: a create-animation request is answered from the cache only when the
\* row of its tuple is completed, and then with that row's job_id; when the
\* tuple has no row, or a row that is pending, rendering or failed, the
\* request goes on to create a job; check_cache and check_animation report
\* cached exactly when the row of the tuple is completed.
C11_HitOnlyWhenCompleted ==
    [][/\ \A req \in Requests :
             GenerateStep(req) =>
                IF CompletedRow(TupleOf(req))
                THEN /\ event'.kind = "generate" /\ event'.cached
                     /\ event'.job_id = db[TupleOf(req)].job_id
                     /\ h' = Idle
                ELSE /\ event'.kind # "generate"
                     /\ h'.op = "check" /\ h'.req = req
       /\ event'.kind \in {"check_cache", "check_animation"} =>
             /\ event'.cached <=> CompletedRow(event'.key)
             /\ event'.cached => event'.job_id = db[event'.key].job_id]_vars

\* a job is being created for a tuple whose row belongs to an earlier job
\* that is pending, rendering or failed
C11_Witness ==
    /\ h.op = "create"
    /\ \E k \in DOMAIN db :
          /\ k = hist[h.job_id].key
          /\ db[k].job_id # h.job_id
          /\ db[k].status \in {"pending", "rendering", "failed"}

\* C12: job-status answers from the Job Store record when the job has one;
\* when it has none (never created, or expired) it answers with the status
\* of the cache-index row of that job_id if there is one; it answers 404
\* exactly when the job has neither a record nor a row.
C12_JobStatusSources ==
    event.kind = "job_status" =>
        LET j == event.job_id IN
        /\ Stored(j) =>
              /\ event.code = 200 /\ event.source = "store"
              /\ event.status = redis[j].status
              /\ event.video_name = redis[j].video_name
              /\ event.error = redis[j].error
        /\ (~Stored(j) /\ RowsOf(j) # {}) =>
              /\ event.code = 200 /\ event.source = "db"
              /\ \A k \in RowsOf(j) :
                    /\ event.status = db[k].status
                    /\ event.video_name = db[k].video_name
        /\ event.code = 404 <=> (~Stored(j) /\ RowsOf(j) = {})

\* job-status has just answered for an expired job from its cache-index row
C12_Witness ==
    /\ event.kind = "job_status" /\ event.source = "db"
    /\ event.job_id \in DOMAIN hist
    /\ ~Stored(event.job_id)

\* C13: a rejected retry is answered 404 when the Job Store has no record of
\* the job id, and 400 when the job exists and is not failed.
C13_RetryRejections ==
    (event.kind = "retry" /\ event.code \notin {200, 500}) =>
        IF Stored(event.job_id) THEN event.code = 400 ELSE event.code = 404

\* the render tasks of a job
TasksOf(job_id) == {t \in tasks : t.job_id = job_id}

\* C14: when the three stages of a retry succeed, the retry is answered 200
\* and the stored job (same job_id, Redis and mirror) is pending with error
\* null and with the narration_text, audio_filename and script this run
\* produced; exactly one render task exists for the job, queued by this
\* request (none exists while the retry runs).
C14_RetrySuccess ==
    /\ h.op = "retry" => TasksOf(h.job_id) = {}
    /\ (event.kind = "retry" /\ event.code = 200) =>
          LET j == event.job_id
              out == Output(j, hist[j].run) IN
          /\ hist[j].run > 1 /\ hist[j].stages = 3
          /\ Stored(j)
          /\ redis[j].job_id = j
          /\ redis[j].status = "pending"
          /\ redis[j].error = None
          /\ redis[j].narration_text = out
          /\ redis[j].audio_filename = out
          /\ redis[j].script = out
          /\ disk[j] = redis[j]
          /\ h = Idle
          /\ Cardinality(TasksOf(j)) = 1
          /\ \A t \in TasksOf(j) : t.pc = "queued"

\* a retry has just succeeded on a job whose render had failed: the record
\* held the artifacts of the first run
C14_Witness ==
    /\ event.kind = "retry" /\ event.code = 200
    /\ redis[event.job_id].status = "pending"
    /\ RowsOf(event.job_id) # {}

\* C15: list-jobs returns the jobs by creation time, most recent first: a
\* job created after another one (job ids are handed out in creation order)
\* is listed before it.
C15_ListedByCreation ==
    event.kind = "list_jobs" =>
        \A i, j \in DOMAIN event.jobs :
            i < j => event.jobs[i] > event.jobs[j]

\* what get_all_jobs returns, without one job
ListedOthers(c, job_id) ==
    SelectSeq(RedisClient_get_all_jobs(c), LAMBDA a : a # job_id)

\* C16: a save_job, whatever the timestamp_numeric of its record (missing,
\* null, not a number, older or newer than the scores in jobs:list), leaves
\* the other jobs in get_all_jobs the same jobs in the same order.
C16_OthersKeepOrder ==
    [][event'.kind = "save" =>
          ListedOthers(client', event'.job_id)
             = ListedOthers(client, event'.job_id)]_vars

\* a record without a usable timestamp_numeric has just been saved and is
\* listed between two other jobs
C16_Witness ==
    /\ event.kind = "save"
    /\ event.ts.t \in {"missing", "null", "text"}
    /\ Len(RedisClient_get_all_jobs(client)) = 3
    /\ RedisClient_get_all_jobs(client)[2] = event.job_id

\* the video_name under which a job's video may be asked for: that of the
\* completed record or, without a record, of the job's completed row
VideoNamesOf(job_id) ==
    IF Stored(job_id)
    THEN (IF redis[job_id].status = "completed"
          THEN {redis[job_id].video_name} ELSE {})
    ELSE {db[k].video_name : k \in {x \in RowsOf(job_id) :
             db[x].status = "completed"}}

\* C17: get_video and download_video answer 200 only for a job that is
\* completed (by its record or, when the record is absent, by its row) with
\* a non-null video_name, and only with a file under the media root whose
\* name matches video_name and whose resolved path is inside the media root;
\* when the file found resolves outside the media root the answer is 403 and
\* no file is served.
C17_VideoOnlyFromMediaRoot ==
    event.kind \in {"get_video", "download_video"} =>
        LET names == VideoNamesOf(event.job_id) \ {None} IN
        /\ event.code = 200 =>
              /\ names # {}
              /\ \E p \in media :
                    /\ event.served = {p}
                    /\ p.inside
                    /\ \A n \in names : LowerSeq(p.name) = LowerSeq(n)
        /\ event.code # 200 => event.served = {}
        /\ event.code = 403 =>
              \E p \in media, n \in names :
                  LowerSeq(p.name) = LowerSeq(n) /\ ~p.inside
        /\ (/\ names # {}
            /\ \E p \in media, n \in names : LowerSeq(p.name) = LowerSeq(n)
            /\ \A p \in media, n \in names :
                  LowerSeq(p.name) = LowerSeq(n) => ~p.inside)
              => event.code = 403

\* a download of a completed job's video has just been denied: the file
\* found is a link that leads out of the media root
C17_Witness ==
    /\ event.kind = "download_video" /\ event.code = 403
    /\ Stored(event.job_id)
    /\ redis[event.job_id].status = "completed"

\* C18: a creation request does not go on after a Job Store write of its
\* job failed: no stage is still to run, no pending answer is given and no
\* render is queued for a job one of whose saves returned False; a pending
\* answer is given only for a job whose stored record is pending.
C18_NoUnpersistedJob ==
    /\ h.op = "create" => ~hist[h.job_id].lost
    /\ \A t \in tasks :
          hist[t.job_id].run = 1 => ~hist[t.job_id].lost
    /\ (event.kind = "generate" /\ event.code = 200 /\ ~event.cached) =>
          /\ ~hist[event.job_id].lost
          /\ Stored(event.job_id)
          /\ redis[event.job_id].status = "pending"

\* C19: a job-status answer with status failed carries a non-null error and
\* a message, whether it comes from the Job Store record or from the
\* cache-index row.
C19_FailedCarriesError ==
    (event.kind = "job_status" /\ event.code = 200
     /\ event.status = "failed") =>
        /\ event.error # None
        /\ event.message # None

QueryKinds ==
    {"job_status", "check_cache", "check_animation", "list_jobs",
     "get_video", "download_video"}

\* C20: job-status, check_cache, check_animation, list-jobs, get_video and
\* download_video, whatever they answer, leave the Job Store records, the
\* ordering index, the file mirror and the cache index as they were (and
\* queue no render, start no handler).
C20_QueriesChangeNothing ==
    [][event'.kind \in QueryKinds =>
          UNCHANGED <<redis, jobs_list, disk, db, media, tasks, h>>]_vars

\* list-jobs has just answered while jobs:list holds the id of an expired
\* job
C20_Witness ==
    /\ event.kind = "list_jobs"
    /\ \E i \in DOMAIN jobs_list : ~Stored(jobs_list[i])
    /\ \E i \in DOMAIN jobs_list : Stored(jobs_list[i])

\* the stored record of the job is pending and carries the three artifacts
PersistedPending(store, job_id) ==
    /\ job_id \in DOMAIN store
    /\ store[job_id].status = "pending"
    /\ store[job_id].narration_text # None
    /\ store[job_id].audio_filename # None
    /\ store[job_id].script # None

\* C21: a creation request answers cached:false with status pending only
\* when the job's record is stored as pending with narration_text,
\* audio_filename and script set, and its render is queued no earlier; a
\* stored record turns to rendering only from such a pending record.
C21_PendingBeforeAnswerAndRender ==
    [][/\ (event'.kind = "generate" /\ event'.code = 200 /\ ~event'.cached)
              => PersistedPending(redis', event'.job_id)
       /\ \A t \in tasks' \ tasks :
              t.pc = "queued" => PersistedPending(redis', t.job_id)
       /\ \A j \in DOMAIN redis' :
              (/\ redis'[j].status = "rendering"
               /\ ~(j \in DOMAIN redis /\ redis[j].status = "rendering"))
              => PersistedPending(redis, j)]_vars

\* the three stages of a creation succeeded and the request has just been
\* answered, the render of the job still queued
C21_Witness ==
    /\ event.kind = "generate" /\ event.code = 200 /\ ~event.cached
    /\ hist[event.job_id].stages = 3
    /\ \E t \in tasks : t.job_id = event.job_id /\ t.pc = "queued"

\* the stage executions of a job in progress: the stage the running handler
\* is in (narration text, narration audio or script generation) and the
\* render subprocesses of its tasks
StageExecutions(job_id) ==
    (IF HandlerJob = job_id THEN 1 ELSE 0)
    + Cardinality({t \in tasks : t.job_id = job_id /\ t.pc = "running"})

C23_RowFollowsLastCompleted ==
    [][\A k \in DOMAIN db' :
          /\ CompletedFor(k)' # {} => db'[k].job_id \in CompletedFor(k)'
          /\ (/\ k \in DOMAIN db
              /\ db[k].status = "completed"
              /\ db'[k].job_id # db[k].job_id)
                 => db'[k].status = "completed"]_vars

\* C24: the animations table holds at most one row per job_id (and, being
\* keyed by the tuple, one per tuple: the row of a tuple names a job created
\* for that tuple); the upsert of a creation sets the row's job_id, status,
\* video_name, narration_text and audio_filename to those of the new job
\* and, on a tuple that has a row, keeps the row's created_at; created_at of
\* a row never changes.
C24_OneRowUpsertKeepsCreatedAt ==
    [][/\ \A j \in JobIds : Cardinality(RowsOf(j)') <= 1
       /\ \A k \in DOMAIN db' : hist'[db'[k].job_id].key = k
       /\ \A k \in DOMAIN db :
              k \in DOMAIN db' /\ db'[k].created_at = db[k].created_at
       /\ (event'.kind = "generate" /\ event'.code = 200 /\ ~event'.cached)
              => LET k == event'.key
                     job_id == event'.job_id
                 IN  /\ k \in DOMAIN db'
                     /\ db'[k].job_id = job_id
                     /\ db'[k].status = "pending"
                     /\ db'[k].video_name = None
                     /\ db'[k].narration_text = redis'[job_id].narration_text
                     /\ db'[k].audio_filename = redis'[job_id].audio_filename
                     /\ k \notin DOMAIN db => db'[k].created_at = <<job_id>>]_vars

\* the creation of a second job of a tuple has just upserted the row a
\* completed first job of the tuple had inserted
C24_Witness ==
    /\ event.kind = "generate" /\ event.code = 200 /\ ~event.cached
    /\ db[event.key].job_id = event.job_id
    /\ db[event.key].created_at # <<event.job_id>>
    /\ CompletedFor(event.key) # {}

\* C25: every status a job's stored record takes is mirrored: the mirror
\* file of a stored job carries the status of the Job Store record.
C25_MirrorHasStoredStatus ==
    \A j \in DOMAIN redis :
        j \in DOMAIN disk /\ disk[j].status = redis[j].status

\* C26: a job whose stored record is completed or failed has a row in the
\* animations table under its job_id, and that row carries the same status.
C26_TerminalStatusInCacheIndex ==
    \A j \in DOMAIN redis :
        redis[j].status \in {"completed", "failed"}
            => /\ RowsOf(j) # {}
               /\ \A k \in RowsOf(j) : db[k].status = redis[j].status

\* C27: in every stored record an artifact is set only when the status is
\* past the stage that produces it (failed counts as past every stage):
\* narration_text not in generating_narration; audio_filename not in
\* generating_narration or generating_audio; script in none of the three
\* generating statuses; video_name only in completed.
C27_ArtifactsFollowStatus ==
    \A j \in DOMAIN redis :
        /\ redis[j].narration_text # None
              => redis[j].status # "generating_narration"
        /\ redis[j].audio_filename # None
              => redis[j].status \notin {"generating_narration",
                                         "generating_audio"}
        /\ redis[j].script # None
              => redis[j].status \notin {"generating_narration",
                                         "generating_audio",
                                         "generating_script"}
        /\ redis[j].video_name # None => redis[j].status = "completed"

\* C28: in every stored record error is set exactly when the status is
\* failed; the step that takes a stored record out of failed is the reset
\* of a retry, and it stores the record with error cleared.
C28_ErrorIffFailed ==
    [][\A j \in DOMAIN redis' :
          /\ redis'[j].error # None <=> redis'[j].status = "failed"
          /\ (/\ j \in DOMAIN redis
              /\ redis[j].status = "failed"
              /\ redis'[j].status # "failed")
                 => /\ redis'[j].status = "generating_narration"
                    /\ redis'[j].error = None
                    /\ h'.op = "retry" /\ h'.job_id = j]_vars

\* retry_job has just reset a job that had failed with an error, and is at
\* its first stage
C28_Witness ==
    /\ h.op = "retry" /\ h.pc = 1
    /\ Stored(h.job_id)
    /\ redis[h.job_id].status = "generating_narration"
    /\ redis[h.job_id].error = None
    /\ h.job_id \in DOMAIN disk /\ disk[h.job_id].error # None

\* the fields of a job record that are set at creation only
FrameFields(r) ==
    <<r.job_id, r.topic, r.topic_id, r.subject, r.subject_id, r.chapter,
      r.chapter_id, r.level, r.created_at>>

\* C29: no step (a stage of a creation or of a retry, a render, the
\* reconciliation at start-up) changes job_id, topic, topic_id, subject,
\* subject_id, chapter, chapter_id, level or created_at of a record, in the
\* Job Store or in the mirror; a stored record carries the values of its
\* creation: its own job id and creation time, the tuple of the request, and
\* the same fields as its mirror file.
C29_CreationFieldsKept ==
    [][/\ \A j \in DOMAIN redis \cap DOMAIN redis' :
              FrameFields(redis'[j]) = FrameFields(redis[j])
       /\ \A j \in DOMAIN disk :
              j \in DOMAIN disk'
              /\ FrameFields(disk'[j]) = FrameFields(disk[j])
       /\ \A j \in DOMAIN redis' :
              /\ redis'[j].job_id = j
              /\ redis'[j].created_at = <<j>>
              /\ TupleOf(redis'[j]) = hist'[j].key
              /\ j \in DOMAIN disk'
              /\ FrameFields(redis'[j]) = FrameFields(disk'[j])]_vars

\* the server has just started and load_jobs_from_disk has re-inserted the
\* record of a job that had been retried and had expired
C29_Witness ==
    /\ event.kind = "startup"
    /\ \E j \in event.migrated : Stored(j) /\ hist[j].run = 2

\* the step is a save, the lapse of the TTL or a delete of job_id
Rewrites(e, job_id) ==
    e.kind \in {"save", "expire", "delete"} /\ e.job_id = job_id

\* C30: a save_job that returns True leaves under the job id the record it
\* was handed, timestamp_numeric being a number (the number handed in, as a
\* number or as a numeric string), scores the id in jobs:list at that
\* timestamp_numeric, and leaves the records and scores of all other ids
\* as they were; record and score then stay until the id is saved again,
\* expires or is deleted; get_job returns the record under the id.
C30_SaveThenGet ==
    [][/\ (event'.kind = "save" /\ client'.ok)
              => LET j == event'.job_id
                     got == RedisClient_get_job(client', j)
                 IN  /\ got # {}
                     /\ Opt(got).job_id = j
                     /\ Opt(got).timestamp_numeric.t = "num"
                     /\ event'.ts.t \in {"num", "numstr"}
                           => Opt(got).timestamp_numeric.v = event'.ts.v
                     /\ j \in DOMAIN client'.zset
                     /\ client'.zset[j] = Opt(got).timestamp_numeric.v
                     /\ \A a \in ClientIds \ {j} :
                           /\ RedisClient_get_job(client', a)
                                 = RedisClient_get_job(client, a)
                           /\ a \in DOMAIN client'.zset
                                 <=> a \in DOMAIN client.zset
                           /\ a \in DOMAIN client.zset
                                 => client'.zset[a] = client.zset[a]
       /\ \A j \in DOMAIN client.keys \cap DOMAIN client.zset :
              ~Rewrites(event', j)
                 => /\ RedisClient_get_job(client', j) = {client.keys[j]}
                    /\ j \in DOMAIN client'.zset
                    /\ client'.zset[j] = client.zset[j]
       /\ event'.kind = "get"
              => event'.job = (IF event'.job_id \in DOMAIN client.keys
                               THEN {client.keys[event'.job_id]} ELSE {})]_vars

\* get_job returns a saved record whose score is not the time of the
\* reading, while another id has a record and a third is listed without one
C30_Witness ==
    /\ event.kind = "get" /\ event.job # {}
    /\ event.job_id \in DOMAIN client.zset
    /\ client.zset[event.job_id] # client.now
    /\ client.zset[event.job_id] = Opt(event.job).timestamp_numeric.v
    /\ \E a \in DOMAIN client.zset : a # event.job_id /\ a \notin DOMAIN client.keys
    /\ \E a \in DOMAIN client.keys : a # event.job_id

\* C31: a save_job of a record whose timestamp_numeric is missing, None or
\* not a number stores and scores the record at the time parsed from its
\* created_at when that is a valid timestamp, and at the current time only
\* when created_at is missing or invalid too (the order of _get_timestamp).
C31_FallsBackToCreatedAt ==
    [][(/\ event'.kind = "save_dated"
        /\ event'.ts.t \in {"missing", "null", "text"})
          => LET j == event'.job_id
                 job_data == [job_id |-> j, timestamp_numeric |-> event'.ts,
                              created_at |-> event'.created_at]
                 used == RedisClient_get_timestamp(client, job_data)
             IN  /\ used.v = (IF event'.created_at.t = "iso"
                              THEN event'.created_at.v ELSE event'.now)
                 /\ client'.keys[j].timestamp_numeric = used
                 /\ client'.zset[j] = used.v]_vars

\* C32: load_jobs_from_disk puts under its id every mirrored record whose
\* id had no record, leaves every record that was there as it was (also
\* where the mirror file differs), and leaves jobs:list without any id that
\* has no record, the ids with a record listed before still listed.
C32_ReconcileRestoresAbsentOnly ==
    [][event'.kind = "startup"
          => /\ \A j \in DOMAIN disk \ DOMAIN client.keys :
                   /\ RedisClient_get_job(client', j) # {}
                   /\ client'.keys[j].job_id = disk[j].job_id
                   /\ disk[j].timestamp_numeric.t # "missing"
                         => client'.keys[j] = disk[j]
             /\ \A j \in DOMAIN client.keys :
                   RedisClient_get_job(client', j) = {client.keys[j]}
             /\ DOMAIN client'.keys = DOMAIN client.keys \cup DOMAIN disk
             /\ \A j \in DOMAIN client'.zset : j \in DOMAIN client'.keys
             /\ \A j \in DOMAIN client.zset \cap DOMAIN client.keys :
                   /\ j \in DOMAIN client'.zset
                   /\ client'.zset[j] = client.zset[j]]_vars

\* a start-up has re-inserted a mirrored record, has left alone a record
\* that differs from its mirror file, and has dropped a listed id that has
\* neither record nor mirror file
C32_Witness ==
    /\ event.kind = "startup"
    /\ event.migrated # {}
    /\ event.cleaned # {}
    /\ \E j \in DOMAIN disk \cap DOMAIN client.keys :
          /\ j \notin event.migrated
          /\ client.keys[j].timestamp_numeric # disk[j].timestamp_numeric
          /\ disk[j].timestamp_numeric.t = "num"

\* C33: with the Redis server unreachable a save_job or get_job call still
\* ends: _connect_with_retry makes at most MAX_RETRIES attempts and gives
\* up only at the last of them with the server still unreachable, the call
\* then returning False or None; an attempt that finds the server goes on
\* to the Redis commands of the call; every call in progress returns.
C33_CallsTerminate ==
    /\ [](client.attempt <= MAX_RETRIES)
    /\ [][/\ (client.pc = "connect" /\ client'.pc = "none")
                => /\ ~redis_up
                   /\ client.attempt = MAX_RETRIES
                   /\ event'.returned = "failure"
          /\ (client.pc = "connect" /\ client'.pc # "connect" /\ redis_up)
                => client'.pc = "command" /\ client'.connected
          /\ (client.op # "idle" /\ client'.op = "idle"
              /\ event'.returned = "failure")
                => ~client'.ok /\ event'.job = {}]_vars
    /\ (client.op # "idle") ~> (client.op = "idle")

\* save_job has returned False after the last of its connection attempts,
\* the server being unreachable
C33_Witness ==
    /\ event.kind = "save_job"
    /\ event.returned = "failure"
    /\ event.attempts = MAX_RETRIES
    /\ ~redis_up /\ ~client.ok

\* C34: under fair scheduling every stored job that is in
\* generating_narration, generating_audio, generating_script, pending or
\* rendering is later stored as completed or failed.
C34_EveryJobEnds ==
    \A j \in JobIds :
        (Stored(j) /\ redis[j].status \notin {"completed", "failed"})
            ~> (Stored(j) /\ redis[j].status \in {"completed", "failed"})

\* C35: a job whose creation failed and which a retry and a successful
\* render have brought to completed is what check_existing_animation
\* returns for its tuple.
C35_RetriedJobIsCacheHit ==
    \A j \in DOMAIN redis :
        (/\ hist[j].creation = "failed"
         /\ hist[j].run > 1
         /\ redis[j].status = "completed")
            => /\ check_existing_animation(db, hist[j].key) # {}
               /\ Opt(check_existing_animation(db, hist[j].key)).job_id = j

\* C36: in every reachable state, an animations row with status completed
\* has a video_name, and the stored record of the row's job, when there is
\* one, is completed with the same video_name.
C36_CompletedRowAgrees ==
    \A k \in DOMAIN db :
        db[k].status = "completed"
            => /\ db[k].video_name # None
               /\ Stored(db[k].job_id)
                    => /\ redis[db[k].job_id].status = "completed"
                       /\ redis[db[k].job_id].video_name = db[k].video_name

\* C37: the video of a completed job is that job's alone: no two stored
\* jobs record the same video_name, and a render that marks its job
\* completed has written the file itself.
C37_ArtifactOfOneJob ==
    /\ \A i, j \in DOMAIN redis :
           (i # j /\ redis[i].video_name # None)
               => redis[i].video_name # redis[j].video_name
    /\ (/\ event.kind = "render"
        /\ Stored(event.job_id)
        /\ hist[event.job_id].render = "exit0_found"
        /\ redis[event.job_id].status = "completed")
           => event.outcome.writes # "none"

\* C38: when a render_animation call has returned, the animations row of
\* its job, if there is one, has status completed or failed.
C38_RenderFinalizesRow ==
    event.kind = "render"
        => \A k \in DOMAIN db :
               db[k].job_id = event.job_id
                   => db[k].status \in {"completed", "failed"}

\* C39: expiry is permanent: the record of a job that has expired from the
\* Job Store is still absent after a restart of the process and its
\* start-up reconciliation.
C39_ExpiryIsPermanent ==
    [][\A j \in JobIds :
           (/\ j \in DOMAIN hist
            /\ get_job(redis, redis_up, j) = {}
            /\ event'.kind = "startup")
               => get_job(redis', redis_up', j) = {}]_vars

\* C40: get_all_jobs returns every job at most once and only jobs whose
\* record is there, also while the id of an expired record is still in
\* jobs:list; cleanup_expired_jobs removes from jobs:list exactly the ids
\* without a record, and leaves the other ids, their scores and every
\* record as they were.
C40_ListAllAndCleanup ==
    [][/\ event'.kind = "list"
          => /\ \A a, b \in 1..Len(event'.jobs) :
                    a # b => event'.jobs[a] # event'.jobs[b]
             /\ \A a \in 1..Len(event'.jobs) :
                    event'.jobs[a] \in DOMAIN client.keys
       /\ event'.kind = "cleanup"
          => /\ DOMAIN client'.zset = DOMAIN client.zset \cap DOMAIN client.keys
             /\ \A a \in DOMAIN client'.zset :
                    client'.zset[a] = client.zset[a]
             /\ client'.keys = client.keys]_vars

\* get_all_jobs has returned a live job while jobs:list still holds the id
\* of an expired record
C40_Witness ==
    /\ event.kind = "list"
    /\ Len(event.jobs) > 0
    /\ DOMAIN client.zset \ DOMAIN client.keys # {}

====
